---- MODULE Spec2Model ----
(***************************************************************************)
(* Model of the llm_seo audit tool: the breadth-first crawler              *)
(* (src/src/llm_seo/crawler.py), the scoring pipeline                      *)
(* (src/src/llm_seo/scoring.py), the page checks (src/src/llm_seo/checks.py),*)
(* the audit command (src/src/llm_seo/cli.py) and the rate limiter and     *)
(* fetcher of the older build (src/build/lib/llm_seo/crawler.py).          *)
(***************************************************************************)
EXTENDS Integers, Sequences, FiniteSets, TLC

VARIABLES
    start_url,   \* crawl_site: the seed URL after the scheme prefix
    max_depth,   \* crawl_site: the max_depth argument
    visited,     \* crawl_site: set of fragment-stripped URLs
    to_visit,    \* crawl_site: FIFO list of <<url, depth>>
    pages_data,  \* crawl_site: the list of page records returned
    pc,          \* crawl_site: "loop" while the while-loop runs, "done" after return
    last,        \* history: what the last loop iteration did, and a summary
                 \* of the anchors of the page it fetched
    pending,     \* history: how many entries at the head of to_visit were
                 \* already queued when the last failed fetch happened
    rested,      \* history: time.sleep(0.5) has run since the last
                 \* requests.get of the crawl (TRUE before the first one)
    page_in,     \* score_page: what the checks find on the page to score
    page_out,    \* score_page: the returned page result, NoResult before the call
    site_in,     \* calculate_scores: the pages and the outcome of the AI analysis
    site_out,    \* calculate_scores: the returned results, NoResult before the call
    audit_in,    \* audit: the command line options and the environment
    audit_out,   \* audit: what the command printed and wrote, NoResult before
    clock,       \* older build: the reading of time.time(), in ticks
    limiter,     \* older build: the RateLimiter object (delay, last_request)
    wait_hist,   \* history: the returns of RateLimiter.wait() so far
    callers,     \* older build: where each thread that calls the limiter
                 \* stands inside wait() or fetch_page, and what it has read
    fetch_in,    \* older build: the arguments of the fetch_page call that
                 \* returned last
    fetch_out,   \* older build: what that fetch_page call returned
    check_in,    \* checks: the check to run and what it is run on
    check_out    \* checks: the returned CheckResult, NoResult before the call

crawl_vars == <<start_url, max_depth, visited, to_visit, pages_data, pc,
                last, pending, rested>>
page_vars == <<page_in, page_out>>
site_vars == <<site_in, site_out>>
audit_vars == <<audit_in, audit_out>>
legacy_vars == <<clock, limiter, wait_hist, callers, fetch_in, fetch_out>>
check_vars == <<check_in, check_out>>

vars == <<crawl_vars, page_vars, site_vars, audit_vars, legacy_vars, check_vars>>

-----------------------------------------------------------------------------
(* Bounds of the modelled web site *)

\* The pages of the seed host are numbered 0 .. NPaths-1, page 0 being the
\* seed. The hub pages may link to each other and to the first page after
\* them; every later page links on to the next one, to itself or back to
\* the seed, so that the site holds a chain longer than the page cap.
NPaths == 53
MaxLinks == 2
ChainLinks == 1
MaxDepth == 2
DeepDepth == 52

\* longest page list given to calculate_scores
MaxSitePages == 3

\* while to_visit and len(pages_data) < 50
MaxPages == 50

SeedHost == "example.com"
OtherHost == "external.com"
Schemes == {"http", "https"}
Paths == 0 .. (NPaths - 1)
NoFrag == ""                  \* the URL has no fragment

-----------------------------------------------------------------------------
(* URLs and the urllib.parse functions the crawler calls *)

MkUrl(s, h, p, f) == [scheme |-> s, host |-> h, path |-> p, frag |-> f]

urldefragKeep(url) == url

\* urldefrag(url)[0]: the URL without its fragment
urldefrag(url) == [url EXCEPT !.frag = NoFrag]

\* urlparse(url).netloc
netloc(url) == url.host

\* An href raises in urljoin when it cannot be parsed (e.g. "http://[")
Raises(href) == href.kind = "bad"

\* urljoin(base, href) for the href shapes of the model
urljoin(base, href) ==
    CASE href.kind = "abs"    -> MkUrl(href.scheme, href.host, href.path, href.frag)
      [] href.kind = "rel"    -> MkUrl(base.scheme, base.host, href.path, href.frag)
      [] href.kind = "frag"   -> MkUrl(base.scheme, base.host, base.path, href.frag)
      [] href.kind = "mailto" -> MkUrl("mailto", "", 0, NoFrag)

\* start_url = 'https://' + start_url when it has no scheme
NormalizeSeed(raw) ==
    IF raw.scheme \in Schemes THEN raw ELSE [raw EXCEPT !.scheme = "https"]

-----------------------------------------------------------------------------
(* The content of the site: what a fetched page may link to *)

Hubs == {0, 1}
HubTargets == {0, 1, 2}

HubMenu(p) ==
         [kind : {"rel"}, path : HubTargets, frag : {NoFrag}]
    \cup [kind : {"rel"}, path : {1}, frag : {"s1", "s2"}]
    \cup [kind : {"abs"}, scheme : {"https"}, host : {SeedHost},
          path : {2}, frag : {NoFrag}]
    \cup [kind : {"abs"}, scheme : {"https"}, host : {OtherHost},
          path : {p}, frag : {NoFrag}]
    \cup [kind : {"bad"}]

\* a chain page links on to the next page, back to the seed or to itself
ChainMenu(p) ==
         [kind : {"rel"}, path : {p + 1} \cap Paths, frag : {NoFrag, "s1"}]
    \cup [kind : {"rel"}, path : {0}, frag : {NoFrag}]
    \cup [kind : {"frag"}, frag : {"s1"}]
    \cup [kind : {"mailto"}]

SeqsUpTo(S, n) == UNION {[1 .. k -> S] : k \in 0 .. n}

\* the anchors with an href of the page at path p, in document order
PageLinks(p) ==
    IF p \in Hubs THEN SeqsUpTo(HubMenu(p), MaxLinks)
    ELSE SeqsUpTo(ChainMenu(p), ChainLinks)

-----------------------------------------------------------------------------
(* crawl_site *)

SameDomainAny(url, base) == TRUE

\* base_domain = urlparse(normalized_url).netloc
\* if urlparse(normalized_full_url).netloc == base_domain:
SameDomain(url, base) == netloc(url) = netloc(base)

\* for link in soup.find_all('a', href=True): ... to_visit.append(...)
\* The loop ends early when urljoin raises; the exception is caught by the
\* handler around the whole iteration.
RECURSIVE EnqueueLinks(_, _, _, _, _)
EnqueueLinks(hrefs, base, depth, seen, queue) ==
    IF hrefs = <<>> THEN queue
    ELSE IF Raises(Head(hrefs)) THEN queue
    ELSE LET full_url == urljoin(base, Head(hrefs))
             normalized_full_url == urldefrag(full_url)
             q2 == IF /\ SameDomain(normalized_full_url, base)
                      /\ normalized_full_url \notin seen
                   THEN Append(queue, <<normalized_full_url, depth + 1>>)
                   ELSE queue
         IN EnqueueLinks(Tail(hrefs), base, depth, seen, q2)

LoopCondNoCap == to_visit # <<>>

\* the loop test of crawl_site
LoopCond == to_visit # <<>> /\ Len(pages_data) < MaxPages

PopLast(queue) == Len(queue)

\* url, depth = to_visit.pop(0)
PopIndex(queue) == 1
Entry == to_visit[PopIndex(to_visit)]

RestPeek == to_visit

\* to_visit after the pop
Rest == [i \in 1 .. (Len(to_visit) - 1) |->
            IF i < PopIndex(to_visit) THEN to_visit[i] ELSE to_visit[i + 1]]

SkipTooDeepOnly(normalized_url, depth) == depth > max_depth

\* if normalized_url in visited or depth > max_depth: continue
SkipCond(normalized_url, depth) ==
    normalized_url \in visited \/ depth > max_depth

FollowAlways(depth) == TRUE

\* if depth < max_depth: (link discovery)
FollowCond(depth) == depth < max_depth

\* page_data = {'url': ..., 'html': response.text, 'status_code': ..., 'depth': ...}
\* The body is kept as the token "text": only its presence is read later.
PageRecord(url, html, depth) ==
    [url |-> url, html |-> "text", status_code |-> 200, depth |-> depth]

\* what the iteration appends to pages_data when requests.get or
\* raise_for_status raises: nothing, the handler only prints and continues
OnFetchError(records, url, depth) == records

AbortOnError == "done"

\* except Exception as e: print(...); continue -- the loop goes on
AfterFetchError == "loop"

\* one more entry has left the head of the queue
Dequeued(n) == IF n > 0 THEN n - 1 ELSE 0

\* the anchors the link loop gets to: those before the first one that raises
RECURSIVE Processed(_)
Processed(hrefs) ==
    IF hrefs = <<>> \/ Raises(Head(hrefs)) THEN <<>>
    ELSE <<Head(hrefs)>> \o Processed(Tail(hrefs))

NoFetch(op) == [op |-> op, offhost |-> FALSE, dupfrag |-> FALSE, revisit |-> FALSE]

\* summary of a fetched page: did it link to another host, did it link to
\* one page under two different fragments, did it link to a visited page
Fetched(html, base, followed, seen) ==
    LET done == Processed(html)
        full(i) == urljoin(base, done[i])
    IN [op |-> "ok",
        offhost |-> followed /\ \E i \in 1 .. Len(done) :
                        netloc(full(i)) # netloc(base),
        dupfrag |-> followed /\ \E i, j \in 1 .. Len(done) :
                        /\ full(i) # full(j)
                        /\ [full(i) EXCEPT !.frag = NoFrag]
                             = [full(j) EXCEPT !.frag = NoFrag],
        revisit |-> followed /\ \E i \in 1 .. Len(done) :
                        [full(i) EXCEPT !.frag = NoFrag] \in seen]

\* time.sleep(0.5) is the last statement of the try block: it runs when
\* the fetch succeeded and the link loop, if entered, did not raise
SleepReached(html, followed) ==
    ~(followed /\ \E i \in 1 .. Len(html) : Raises(html[i]))

\* the except branch prints and continues without sleeping
SleepOnError == FALSE

\* results['pages'] of calculate_scores: one entry per page record handed
\* over by crawl_site, in order, under the url of the record
ReportPages(records) ==
    [i \in 1 .. Len(records) |-> [url |-> records[i].url]]

Skip ==
    /\ pc = "loop" /\ LoopCond
    /\ SkipCond(urldefrag(Entry[1]), Entry[2])
    /\ to_visit' = Rest
    /\ last' = NoFetch("skip")
    /\ pending' = Dequeued(pending)
    /\ UNCHANGED <<start_url, max_depth, visited, pages_data, pc, rested>>
    /\ UNCHANGED <<page_vars, site_vars, audit_vars, legacy_vars, check_vars>>

FetchOk ==
    /\ pc = "loop" /\ LoopCond
    /\ LET normalized_url == urldefrag(Entry[1])
           depth == Entry[2]
       IN /\ ~SkipCond(normalized_url, depth)
          /\ \E html \in PageLinks(normalized_url.path) :
               /\ visited' = visited \cup {normalized_url}
               /\ pages_data' = Append(pages_data,
                                       PageRecord(normalized_url, html, depth))
               /\ to_visit' = IF FollowCond(depth)
                              THEN EnqueueLinks(html, normalized_url, depth,
                                                visited', Rest)
                              ELSE Rest
               /\ last' = Fetched(html, normalized_url, FollowCond(depth), visited')
               /\ rested' = SleepReached(html, FollowCond(depth))
    /\ pending' = Dequeued(pending)
    /\ UNCHANGED <<start_url, max_depth, pc>>
    /\ UNCHANGED <<page_vars, site_vars, audit_vars, legacy_vars, check_vars>>

FetchFail ==
    /\ pc = "loop" /\ LoopCond
    /\ LET normalized_url == urldefrag(Entry[1])
           depth == Entry[2]
       IN /\ ~SkipCond(normalized_url, depth)
          /\ visited' = visited \cup {normalized_url}
          /\ pages_data' = OnFetchError(pages_data, normalized_url, depth)
    /\ to_visit' = Rest
    /\ last' = NoFetch("fail")
    /\ pending' = Len(Rest)
    /\ rested' = SleepOnError
    /\ pc' = AfterFetchError
    /\ UNCHANGED <<start_url, max_depth>>
    /\ UNCHANGED <<page_vars, site_vars, audit_vars, legacy_vars, check_vars>>

\* return pages_data
Return ==
    /\ pc = "loop" /\ ~LoopCond
    /\ pc' = "done"
    /\ UNCHANGED <<start_url, max_depth, visited, to_visit, pages_data,
                   last, pending, rested>>
    /\ UNCHANGED <<page_vars, site_vars, audit_vars, legacy_vars, check_vars>>

SeedInputs ==
    [scheme : {"", "https"}, host : {SeedHost}, path : {0}, frag : {NoFrag, "s1"}]

DepthInputs == (0 .. MaxDepth) \cup {DeepDepth}

CrawlInit ==
    /\ \E raw \in SeedInputs : start_url = NormalizeSeed(raw)
    /\ max_depth \in DepthInputs
    /\ visited = {}
    /\ to_visit = <<<<start_url, 0>>>>
    /\ pages_data = <<>>
    /\ pc = "loop"
    /\ last = NoFetch("none")
    /\ pending = 0
    /\ rested = TRUE

CrawlIdle ==
    /\ start_url = MkUrl("https", SeedHost, 0, NoFrag)
    /\ max_depth = 0
    /\ visited = {}
    /\ to_visit = <<>>
    /\ pages_data = <<>>
    /\ pc = "idle"
    /\ last = NoFetch("none")
    /\ pending = 0
    /\ rested = TRUE

-----------------------------------------------------------------------------
(* score_page *)

NoResult == [status |-> "none"]

\* a check name, split at its first underscore
Name(head, tail) == [head |-> head, tail |-> tail]

\* check_name.startswith('llm_')
StartsWithLlm(name) == name.head = "llm"

LlmContentAnalysis == Name("llm", "content_analysis")
LlmAccessibilityAnalysis == Name("llm", "accessibility_analysis")
LlmContentRichness == Name("llm", "content_richness")
RobotsTxtAllowsCrawling == Name("robots", "txt_allows_crawling")
MetaRobotsAllowsIndexing == Name("meta", "robots_allows_indexing")
HasH1Tag == Name("has", "h1_tag")
HasMetaDescription == Name("has", "meta_description")
ImagesHaveAltText == Name("images", "have_alt_text")

\* llm_content.get('llm_richness_score', 0) as scrape_as_llm may return it
RichnessInputs == {0, 49, 50, 100}

\* page_data['html'] of a record without a body
NoHtml == "None"

\* what the calls made by score_page return for a page: the verdict of each
\* check function and the richness score of scrape_as_llm; html is the body
\* of the page record
PageInputs ==
    [html : {"text", NoHtml},
     llm_content_analysis : BOOLEAN,
     llm_richness_score : RichnessInputs,
     robots_txt_allows_crawling : BOOLEAN,
     meta_robots_allows_indexing : BOOLEAN,
     has_h1_tag : BOOLEAN,
     has_meta_description : BOOLEAN,
     images_have_alt_text : BOOLEAN]

Check(name, passed) == [name |-> name, passed |-> passed]

AccessibilityAsContent(page) == page.llm_content_analysis

\* 'llm_accessibility_analysis': {'passed': True, ...}
AccessibilityPassed(page) == TRUE

\* checks = {...}: the dict of score_page, in insertion order
Checks(page) ==
    << Check(LlmContentAnalysis, page.llm_content_analysis),
       Check(LlmAccessibilityAnalysis, AccessibilityPassed(page)),
       Check(LlmContentRichness, page.llm_richness_score >= 50),
       Check(RobotsTxtAllowsCrawling, page.robots_txt_allows_crawling),
       Check(MetaRobotsAllowsIndexing, page.meta_robots_allows_indexing),
       Check(HasH1Tag, page.has_h1_tag),
       Check(HasMetaDescription, page.has_meta_description),
       Check(ImagesHaveAltText, page.images_have_alt_text) >>

CheckPoints20(name) == 20

\* score += 25 for an LLM-specific check, 15 for any other
CheckPoints(name) == IF StartsWithLlm(name) THEN 25 ELSE 15

\* for check_name, check_result in checks.items(): if check_result['passed']: ...
RECURSIVE ScoreLoop(_, _)
ScoreLoop(checks, score) ==
    IF checks = <<>> THEN score
    ELSE ScoreLoop(Tail(checks),
                   IF Head(checks).passed
                   THEN score + CheckPoints(Head(checks).name)
                   ELSE score)

CapNone(score) == score

\* score = min(100, score)
CapScore(score) == IF score < 100 THEN score ELSE 100

\* soup = BeautifulSoup(page_data['html'], 'html.parser') raises TypeError
\* for a body that is None
SoupRaises(html) == html = NoHtml

\* page_data['html'] of line 81 raises KeyError for a page dict without
\* that key. The LLM extraction calls and the robots check catch their own
\* exceptions; the four checks that parse the body do not, and score_page
\* has no handler: the first of them, evaluated while the checks dict is
\* built, raises out of score_page.
score_page(page) ==
    IF "html" \notin DOMAIN page
    THEN [status |-> "raised", at |-> Name("page_data", "html")]
    ELSE IF SoupRaises(page.html)
    THEN [status |-> "raised", at |-> MetaRobotsAllowsIndexing]
    ELSE [status |-> "returned",
          score |-> CapScore(ScoreLoop(Checks(page), 0)),
          checks |-> Checks(page)]

ScorePage ==
    /\ page_out = NoResult
    /\ page_in \in PageInputs
    /\ page_out' = score_page(page_in)
    /\ UNCHANGED <<page_in, crawl_vars, site_vars>>
    /\ UNCHANGED <<audit_vars, legacy_vars, check_vars>>

NoPage == [status |-> "none"]

PageIdle == page_in = NoPage /\ page_out = NoResult

PageStart == page_in \in PageInputs /\ page_out = NoResult

-----------------------------------------------------------------------------
(* calculate_scores *)

RECURSIVE SumScores(_)
SumScores(results) ==
    IF results = <<>> THEN 0
    ELSE Head(results).score + SumScores(Tail(results))

\* round(num / den) for num >= 0, den > 0: Python rounds halves to even
Round(num, den) ==
    LET q == num \div den
        r == num % den
    IN IF 2 * r < den THEN q
       ELSE IF 2 * r > den THEN q + 1
       ELSE IF q % 2 = 0 THEN q ELSE q + 1

\* sum(1 for page in results['pages'] if not page['checks'][name]['passed'])
Issues(results, name) ==
    Cardinality({i \in 1 .. Len(results) :
        \E k \in 1 .. Len(results[i].checks) :
            /\ results[i].checks[k].name = name
            /\ ~results[i].checks[k].passed})

\* generate_ai_powered_recommendations reads sample_pages, which is assigned
\* only in the branch taken when more than half of the pages fail the H1
\* check: the read raises otherwise
AiRecommendationsRaise(results) ==
    /\ Issues(results, HasMetaDescription) > 0
    /\ ~(2 * Issues(results, HasH1Tag) > Len(results))

\* recommendations['...'].append(...) when the condition holds; an entry is
\* named after the issue it reports
AppendIf(condition, entry) == IF condition THEN <<entry>> ELSE <<>>

\* generate_recommendations(results)
generate_recommendations(results) ==
    LET total_pages == Len(results.pages)
    IN [critical |->
               AppendIf(Issues(results.pages, RobotsTxtAllowsCrawling) > 0,
                   "robots.txt blocking")
            \o AppendIf(Issues(results.pages, MetaRobotsAllowsIndexing) > 0,
                   "noindex tags")
            \o AppendIf(2 * Issues(results.pages, HasH1Tag) > total_pages,
                   "missing main headings"),
        important |->
               AppendIf(Issues(results.pages, HasMetaDescription) > 0,
                   "missing page descriptions")
            \o AppendIf(Issues(results.pages, ImagesHaveAltText) > 0,
                   "missing image descriptions"),
        suggested |->
               AppendIf(results.avg_readability_score < 70,
                   "simplify your writing")
            \o AppendIf(results.total_structured_schemas = 0,
                   "add structured data")]

\* 'recommendations': recommendations[:8] of parse_ai_analysis
MaxRecommendations == 8

\* "for i, rec in enumerate(ai_recommendations)": the AI INSIGHT entries of
\* the recommendations numbered lo .. hi - 1, of which there are n
AiInsights(n, lo, hi) ==
    [i \in 1 .. (IF n < hi THEN n ELSE hi) - (IF n < lo THEN n ELSE lo) |->
        "AI INSIGHT"]

\* generate_ai_powered_recommendations(results, openai_analysis) when it
\* returns; ai_recommendations is the number of
\* website_specific_recommendations of the analysis
generate_ai_powered_recommendations(results, ai_recommendations) ==
    LET total_pages == Len(results.pages)
    IN [critical |->
               AiInsights(ai_recommendations, 0, 3)
            \o AppendIf(Issues(results.pages, RobotsTxtAllowsCrawling) > 0,
                   "robots.txt blocking")
            \o AppendIf(2 * Issues(results.pages, HasH1Tag) > total_pages,
                   "missing main headings"),
        important |->
               AiInsights(ai_recommendations, 3, 6)
            \o AppendIf(Issues(results.pages, HasMetaDescription) > 0,
                   "missing page descriptions")
            \o AppendIf(Issues(results.pages, ImagesHaveAltText) > 0,
                   "missing image descriptions"),
        suggested |->
               AiInsights(ai_recommendations, 6, ai_recommendations)]

\* total_readability and total_schemas of the loop over the pages
RECURSIVE SumField(_, _)
SumField(pages_in, field) ==
    IF pages_in = <<>> THEN 0
    ELSE Head(pages_in)[field] + SumField(Tail(pages_in), field)

\* "for page_data in pages_data": results['pages'].append(score_page(...))
RECURSIVE ScorePages(_)
ScorePages(pages_in) ==
    IF pages_in = <<>> THEN <<>>
    ELSE <<score_page(Head(pages_in))>> \o ScorePages(Tail(pages_in))

\* calculate_scores(pages_data); openai_success and ai_recommendations are
\* what scrape_website_with_openai returns for the pages
calculate_scores(pages_in, openai_success, ai_recommendations) ==
    LET results_pages == ScorePages(pages_in)
        total_score == SumScores(results_pages)
        num_pages == Len(pages_in)
        count(lo, hi) == Cardinality({i \in 1 .. num_pages :
                            /\ results_pages[i].score >= lo
                            /\ results_pages[i].score < hi})
        results ==
            [pages |-> results_pages,
             site_score |-> IF num_pages > 0
                            THEN Round(total_score, num_pages) ELSE 0,
             high_accessibility |-> count(80, 101),
             medium_accessibility |-> count(50, 80),
             low_accessibility |-> count(0, 50),
             avg_readability_score |->
                 IF num_pages > 0
                 THEN Round(SumField(pages_in, "readability_score"),
                          num_pages)
                 ELSE 0,
             total_structured_schemas |->
                 SumField(pages_in, "structured_schemas_count")]
    IN IF \E i \in 1 .. num_pages : results_pages[i].status = "raised"
       THEN [status |-> "raised"]
       ELSE IF openai_success /\ AiRecommendationsRaise(results_pages)
       THEN [status |-> "raised"]
       ELSE [status |-> "returned",
             pages |-> results.pages,
             site_score |-> results.site_score,
             high_accessibility |-> results.high_accessibility,
             medium_accessibility |-> results.medium_accessibility,
             low_accessibility |-> results.low_accessibility,
             avg_readability_score |-> results.avg_readability_score,
             total_structured_schemas |-> results.total_structured_schemas,
             recommendations |->
                 IF openai_success
                 THEN generate_ai_powered_recommendations(results,
                          ai_recommendations)
                 ELSE generate_recommendations(results)]

\* content_analysis of a page: the readability score and the schema count
\* that content_analysis.py returns for it
RichContent == [readability_score |-> 80, structured_schemas_count |-> 1]
PoorContent == [readability_score |-> 30, structured_schemas_count |-> 0]

\* the pages given to calculate_scores. Records of crawl_site always carry
\* a body; the two LLM content verdicts agree and the robots, meta robots
\* and alt text verdicts agree, the H1 and the meta description verdicts are
\* free; a page of rich content reads easily and carries one schema, a page
\* of poor content reads hard and carries none. The page dicts of
\* tests/test_scoring.py carry a score and an empty checks dict and have no
\* 'html' key.
SitePageInputs ==
         {p @@ (IF p.llm_richness_score >= 50 THEN RichContent ELSE PoorContent) :
             p \in {q \in PageInputs :
                       /\ q.html = "text"
                       /\ q.llm_richness_score \in {0, 100}
                       /\ q.llm_content_analysis = (q.llm_richness_score >= 50)
                       /\ q.meta_robots_allows_indexing
                              = q.robots_txt_allows_crawling
                       /\ q.images_have_alt_text = q.robots_txt_allows_crawling}}
    \cup [score : {60, 80, 100}, checks : {<<>>}]

\* the pages and the analysis of scrape_website_with_openai: a failed
\* analysis carries no recommendations, a successful one none, two or the
\* most that parse_ai_analysis lets through; the page dicts of the tests
\* are given without a credential, where the analysis fails
SiteInputs ==
    {s \in [pages : SeqsUpTo(SitePageInputs, MaxSitePages),
            openai_success : BOOLEAN,
            ai_recommendations : {0, 2, MaxRecommendations}] :
        /\ ~s.openai_success => s.ai_recommendations = 0
        /\ s.openai_success =>
               \A i \in 1 .. Len(s.pages) : "html" \in DOMAIN s.pages[i]}

CalculateScores ==
    /\ site_out = NoResult
    /\ site_in \in SiteInputs
    /\ site_out' = calculate_scores(site_in.pages, site_in.openai_success,
                                    site_in.ai_recommendations)
    /\ UNCHANGED <<site_in, crawl_vars, page_vars>>
    /\ UNCHANGED <<audit_vars, legacy_vars, check_vars>>

SiteIdle == site_in = NoPage /\ site_out = NoResult

SiteStart == site_in \in SiteInputs /\ site_out = NoResult

-----------------------------------------------------------------------------
(* audit: the command of cli.py *)

\* Python's None, and a value that is present
None == <<>>
Some(x) == <<x>>

\* not value, for an optional string: None and '' are both false
Falsy(opt) == opt = None \/ opt = Some("")

\* --openai-key and OPENAI_API_KEY: absent, empty or set
KeyInputs == {None, Some(""), Some("sk-test")}

\* The options of one run of the command, the environment, and whether
\* calculate_scores returns: it can raise only after an AI analysis that
\* succeeded, which needs OPENAI_API_KEY.
AuditInputs ==
    {o \in [format : {"report", "json"},
            output : {None, Some("report.txt")},
            openai_report : BOOLEAN,
            openai_key : KeyInputs,
            env_key : KeyInputs,
            scores : {"returned", "raised"}] :
        o.scores = "raised" => ~Falsy(o.env_key)}

\* if not openai_key and not os.getenv('OPENAI_API_KEY'):
NoCredential(o) == Falsy(o.openai_key) /\ Falsy(o.env_key)

\* generate_report_with_openai(results, pages_html_data, openai_key): the
\* function takes two parameters, the call with three raises TypeError
ReporterCallRaises == TRUE

AuditResult(status, echo, file) ==
    [status |-> status, echo |-> echo, file |-> file]

\* the last part of audit: render the report or the JSON document and print
\* it or save it to the --output path
EmitReport(o, echo) ==
    IF o.format = "report"
    THEN IF o.output # None
         THEN AuditResult("returned", Append(echo, "Report saved to {}"),
                          Some("unified_report"))
         ELSE AuditResult("returned", Append(echo, "unified_report"), None)
    ELSE IF o.output # None
         THEN AuditResult("returned", Append(echo, "JSON report saved to {}"),
                          Some("json"))
         ELSE AuditResult("returned", Append(echo, "json"), None)

\* audit(url, depth, output, openai_report, openai_key, format)
audit(o) ==
    LET started == <<"Auditing {} with depth {}...">>
    IN IF o.scores = "raised"
       THEN AuditResult("raised", started, None)
       ELSE IF o.openai_report
       THEN IF NoCredential(o)
            THEN AuditResult("returned",
                             Append(started, "Error: OpenAI API key required."),
                             None)
            ELSE IF ReporterCallRaises
            THEN AuditResult("raised",
                     Append(started, "Generating polished report with OpenAI..."),
                     None)
            ELSE EmitReport(o,
                     Append(started, "Generating polished report with OpenAI..."))
       ELSE EmitReport(o, started)

Audit ==
    /\ audit_out = NoResult
    /\ audit_in \in AuditInputs
    /\ audit_out' = audit(audit_in)
    /\ UNCHANGED <<audit_in, crawl_vars, page_vars, site_vars>>
    /\ UNCHANGED <<legacy_vars, check_vars>>

AuditIdle == audit_in = NoPage /\ audit_out = NoResult

AuditStart == audit_in \in AuditInputs /\ audit_out = NoResult

-----------------------------------------------------------------------------
(* RateLimiter and fetch_page of the older build *)

\* Time is counted in ticks of time.time(). The limiter is constructed at
\* StartTime, a clock reading larger than every delay (time.time() counts
\* from 1970), and the run is followed for Horizon ticks.
MaxDelay == 1
Horizon == 2
StartTime == MaxDelay + 1
MaxTime == StartTime + Horizon

\* RateLimiter(delay): self.delay = delay; self.last_request = 0
RateLimiter(delay) == [delay |-> delay, last_request |-> 0]

NoSleep(elapsed, delay) == 0

\* if elapsed < self.delay: time.sleep(self.delay - elapsed)
SleepFor(elapsed, delay) == IF elapsed < delay THEN delay - elapsed ELSE 0

\* elapsed = time.time() - self.last_request
Elapsed(lim, now) == now - lim.last_request

\* history of the returns of wait(): how many (2 stands for two or more),
\* the time the last one stored in last_request (the construction time
\* before the first), how long after the one stored before it, how long
\* the call asked time.sleep to sleep, and whether another call was inside
\* wait() during that call
Returned(hist, t, slept, overlap) ==
    [returns |-> IF hist.returns < 2 THEN hist.returns + 1 ELSE 2,
     at |-> t,
     gap |-> t - hist.at,
     slept |-> slept,
     overlap |-> overlap]

\* the threads that may call the limiter; RateLimiter holds no lock, and a
\* thread may be suspended between any two of its reads and writes
Callers == {"thread 1", "thread 2"}

\* where a thread stands: idle; "line 19" after the time.time() of line 19
\* and before the read of last_request; "sleeping" inside time.sleep;
\* "line 22" before the time.time() of line 22; "store" between that
\* reading and the write of last_request; "get" inside requests.get.
\* now is the last reading of time.time() that the thread still uses
IdleCaller ==
    [phase |-> "idle", call |-> "none", url |-> "", now |-> 0,
     wake |-> 0, slept |-> 0, overlap |-> FALSE]

InWait(c) == callers[c].phase \in {"line 19", "sleeping", "line 22", "store"}

\* time passes, whatever the threads are doing; a thread inside time.sleep
\* may sleep on after its wake time
Tick ==
    /\ clock >= StartTime /\ clock < MaxTime
    /\ clock' = clock + 1
    /\ UNCHANGED <<limiter, wait_hist, callers, fetch_in, fetch_out>>
    /\ UNCHANGED <<crawl_vars, page_vars, site_vars, audit_vars, check_vars>>

\* thread c calls RateLimiter.wait() for the given call and evaluates the
\* time.time() of line 19
EnterWait(c, call, url) ==
    callers' =
        [d \in Callers |->
            IF d = c
            THEN [phase |-> "line 19", call |-> call, url |-> url,
                  now |-> clock, wake |-> 0, slept |-> 0,
                  overlap |-> \E e \in Callers \ {c} : InWait(e)]
            ELSE [callers[d] EXCEPT !.overlap = @ \/ InWait(d)]]

\* RateLimiter.wait() called by an idle thread
Wait ==
    /\ clock >= StartTime
    /\ \E c \in Callers :
         /\ callers[c].phase = "idle"
         /\ EnterWait(c, "wait", "")
    /\ UNCHANGED <<clock, limiter, wait_hist, fetch_in, fetch_out>>
    /\ UNCHANGED <<crawl_vars, page_vars, site_vars, audit_vars, check_vars>>

\* line 19 to 21 in a thread: last_request is read and subtracted from the
\* time read before; the thread enters time.sleep(self.delay - elapsed) or
\* goes on to line 22
ReadLastRequest ==
    /\ \E c \in Callers :
         /\ callers[c].phase = "line 19"
         /\ LET dur == SleepFor(Elapsed(limiter, callers[c].now), limiter.delay)
            IN callers' =
                   [callers EXCEPT ![c] =
                       IF dur > 0
                       THEN [@ EXCEPT !.phase = "sleeping", !.now = 0,
                                      !.wake = clock + dur, !.slept = dur]
                       ELSE [@ EXCEPT !.phase = "line 22", !.now = 0]]
    /\ UNCHANGED <<clock, limiter, wait_hist, fetch_in, fetch_out>>
    /\ UNCHANGED <<crawl_vars, page_vars, site_vars, audit_vars, check_vars>>

\* the time.time() of line 22 in a thread that did not sleep or whose
\* time.sleep has lasted at least as long as asked
ReadTime ==
    /\ \E c \in Callers :
         /\ \/ callers[c].phase = "line 22"
            \/ callers[c].phase = "sleeping" /\ clock >= callers[c].wake
         /\ callers' = [callers EXCEPT ![c] =
                           [@ EXCEPT !.phase = "store", !.now = clock,
                                     !.wake = 0]]
    /\ UNCHANGED <<clock, limiter, wait_hist, fetch_in, fetch_out>>
    /\ UNCHANGED <<crawl_vars, page_vars, site_vars, audit_vars, check_vars>>

\* the assignment of line 22 in a thread: self.last_request gets the time
\* read and wait() returns; a fetch_page call goes on to requests.get
WriteLastRequest ==
    /\ \E c \in Callers :
         /\ callers[c].phase = "store"
         /\ limiter' = [limiter EXCEPT !.last_request = callers[c].now]
         /\ wait_hist' = Returned(wait_hist, callers[c].now, callers[c].slept,
                             callers[c].overlap)
         /\ callers' = [callers EXCEPT ![c] =
                           IF callers[c].call = "fetch_page"
                           THEN [phase |-> "get", call |-> "fetch_page",
                                 url |-> callers[c].url, now |-> 0,
                                 wake |-> 0, slept |-> 0, overlap |-> FALSE]
                           ELSE IdleCaller]
    /\ UNCHANGED <<clock, fetch_in, fetch_out>>
    /\ UNCHANGED <<crawl_vars, page_vars, site_vars, audit_vars, check_vars>>

FetchUrls == {"https://example.com", "https://example.com/about"}

\* what a fetch_page call meets: rate_limiter.wait() raises, requests.get
\* raises (the text of the exception may be empty), or a response comes back
FetchOutcomes ==
         [kind : {"wait_raises"}, msg : {"wait failed"}]
    \cup [kind : {"get_raises"}, msg : {"", "Connection error"}]
    \cup [kind : {"response"}, status_code : {200, 404, 500}, text : {"", "text"}]

\* response.raise_for_status() raises HTTPError for a 4xx or 5xx status
StatusRaises(status_code) == status_code >= 400 /\ status_code < 600

CaughtAfterWait(stage) == stage # "wait"

\* the try block holds the wait, the get and raise_for_status;
\* except Exception catches what any of them raises
Caught(stage) == TRUE

\* return {'url': url, 'html': None, 'status_code': None, 'error': str(e)}
FetchFailure(url, stage, msg) ==
    IF Caught(stage)
    THEN [status |-> "returned", url |-> url, html |-> None,
          status_code |-> None, error |-> Some(msg)]
    ELSE [status |-> "raised"]

\* fetch_page(url, rate_limiter)
fetch_page(url, outcome) ==
    IF outcome.kind = "wait_raises"
    THEN FetchFailure(url, "wait", outcome.msg)
    ELSE IF outcome.kind = "get_raises"
    THEN FetchFailure(url, "get", outcome.msg)
    ELSE IF StatusRaises(outcome.status_code)
    THEN FetchFailure(url, "raise_for_status", "HTTP Error")
    ELSE [status |-> "returned", url |-> url, html |-> Some(outcome.text),
          status_code |-> Some(outcome.status_code), error |-> None]

\* what requests.get and raise_for_status may do once the wait is over
GetOutcomes == {o \in FetchOutcomes : o.kind # "wait_raises"}

\* fetch_page(url, rate_limiter) called by an idle thread: a wait that
\* raises leaves the limiter as it was and the call returns the failure;
\* otherwise the thread is inside rate_limiter.wait()
FetchPage ==
    /\ clock >= StartTime
    /\ \E c \in Callers, url \in FetchUrls :
         /\ callers[c].phase = "idle"
         /\ \/ \E outcome \in FetchOutcomes \ GetOutcomes :
                 /\ fetch_in' = [url |-> url, outcome |-> outcome]
                 /\ fetch_out' = fetch_page(url, outcome)
                 /\ UNCHANGED callers
            \/ /\ EnterWait(c, "fetch_page", url)
               /\ UNCHANGED <<fetch_in, fetch_out>>
    /\ UNCHANGED <<clock, limiter, wait_hist>>
    /\ UNCHANGED <<crawl_vars, page_vars, site_vars, audit_vars, check_vars>>

\* requests.get comes back in a thread, raise_for_status runs and
\* fetch_page returns
RequestsGet ==
    /\ \E c \in Callers, outcome \in GetOutcomes :
         /\ callers[c].phase = "get"
         /\ fetch_in' = [url |-> callers[c].url, outcome |-> outcome]
         /\ fetch_out' = fetch_page(callers[c].url, outcome)
         /\ callers' = [callers EXCEPT ![c] = IdleCaller]
    /\ UNCHANGED <<clock, limiter, wait_hist>>
    /\ UNCHANGED <<crawl_vars, page_vars, site_vars, audit_vars, check_vars>>

NoWaits ==
    [returns |-> 0, at |-> 0, gap |-> 0, slept |-> 0, overlap |-> FALSE]

LegacyIdle ==
    /\ clock = 0
    /\ limiter = RateLimiter(0)
    /\ wait_hist = NoWaits
    /\ callers = [c \in Callers |-> IdleCaller]
    /\ fetch_in = NoPage
    /\ fetch_out = NoResult

\* a limiter has just been constructed
LegacyStart ==
    /\ clock = StartTime
    /\ \E delay \in 0 .. MaxDelay : limiter = RateLimiter(delay)
    /\ wait_hist = [NoWaits EXCEPT !.at = StartTime]
    /\ callers = [c \in Callers |-> IdleCaller]
    /\ fetch_in = NoPage
    /\ fetch_out = NoResult

-----------------------------------------------------------------------------
(* The page checks of checks.py *)

MaxRobotsLines == 3
MaxH1 == 3
MaxH2 == 1
MaxImages == 3

\* a message: the text of the f-string and the values put into it
Msg(template, args) == [template |-> template, args |-> args]

\* {'passed': ..., 'message': ...}
CheckResult(passed, message) ==
    [status |-> "returned", passed |-> passed, message |-> message]

\* str.lower() on the words of the modelled robots.txt files
Lower(w) ==
    CASE w = "User-agent" -> "user-agent"
      [] w = "Disallow" -> "disallow"
      [] w = "Allow" -> "allow"
      [] w = "GPTBot" -> "gptbot"
      [] OTHER -> w

\* a line "field: value" of a robots.txt file; "#" stands for a comment line
RobotsLine(field, value) == [field |-> field, value |-> value]

RobotsLines ==
    { RobotsLine("User-agent", "*"), RobotsLine("User-agent", "GPTBot"),
      RobotsLine("Disallow", "/"), RobotsLine("Disallow", "/private"),
      RobotsLine("Allow", "/"), RobotsLine("#", "comment") }

\* what requests.get(robots_url, timeout=10) does
RobotsGets ==
         [kind : {"response"}, status_code : {200, 404, 503},
          body : SeqsUpTo(RobotsLines, MaxRobotsLines)]
    \cup [kind : {"raises"}, msg : {"timed out"}]

\* line.strip().startswith('#')
IsComment(line) == line.field = "#"

\* robots_content = response.text.lower(); lines = [line.strip() for line in
\* robots_content.split('\n') if line.strip() and not ...startswith('#')]
Directives(body) ==
    LET kept == SelectSeq(body, LAMBDA line : ~IsComment(line))
    IN [i \in 1 .. Len(kept) |->
           RobotsLine(Lower(kept[i].field), Lower(kept[i].value))]

IsAnyAgent(agent) == TRUE

\* in_wildcard_section = (agent == '*')
IsWildcard(agent) == agent = "*"

AgentBranchOutsideWildcard(line, in_wildcard_section) ==
    line.field = "user-agent" /\ ~in_wildcard_section

\* if line.startswith('user-agent:'): the first branch of the loop, taken
\* for every user-agent line, inside a wildcard section or not
AgentBranch(line, in_wildcard_section) == line.field = "user-agent"

\* for line in lines: ... the three branches of the loop; the third one
\* (break) tests again for a user-agent line, which the first branch has
\* already taken
RECURSIVE WildcardDisallows(_, _, _)
WildcardDisallows(lines, in_wildcard_section, wildcard_disallows) ==
    IF lines = <<>> THEN wildcard_disallows
    ELSE LET line == Head(lines)
         IN IF AgentBranch(line, in_wildcard_section)
            THEN WildcardDisallows(Tail(lines), IsWildcard(line.value),
                                   wildcard_disallows)
            ELSE IF in_wildcard_section /\ line.field = "disallow"
            THEN WildcardDisallows(Tail(lines), in_wildcard_section,
                                   Append(wildcard_disallows, line.value))
            ELSE IF line.field = "user-agent" /\ in_wildcard_section
            THEN wildcard_disallows
            ELSE WildcardDisallows(Tail(lines), in_wildcard_section,
                                   wildcard_disallows)

\* if response.status_code == 404:
NotFound(status_code) == status_code = 404

NotOkNever(status_code) == FALSE

\* if response.status_code != 200:
NotOk(status_code) == status_code # 200

\* check_robots_txt_allows_crawling(page_data)
check_robots_txt_allows_crawling(get) ==
    IF get.kind = "raises"
    THEN CheckResult(TRUE,
             Msg("Could not check robots.txt (allows crawling): {}", <<get.msg>>))
    ELSE IF NotFound(get.status_code)
    THEN CheckResult(TRUE,
             Msg("No robots.txt found (allows crawling per RFC)", <<>>))
    ELSE IF NotOk(get.status_code)
    THEN CheckResult(TRUE,
             Msg("robots.txt returned {} (allows crawling)", <<get.status_code>>))
    ELSE LET lines == Directives(get.body)
             wildcard_disallows == WildcardDisallows(lines, FALSE, <<>>)
             allows == SelectSeq(lines, LAMBDA line : line.field = "allow")
         IN IF /\ \E i \in 1 .. Len(wildcard_disallows) :
                     wildcard_disallows[i] = "/"
               /\ allows = <<>>
            THEN CheckResult(FALSE, Msg("robots.txt disallows all crawling", <<>>))
            ELSE CheckResult(TRUE, Msg("robots.txt allows crawling", <<>>))

\* get_text(strip=True) and str.strip() on the modelled texts
Strip(text) == IF text = " " THEN "" ELSE text

\* the text inside an <h1> element
H1Texts == {"", " ", "Title"}

\* the stripped text inside an <h2> element
H2Inputs ==
    {"Menu", "Abcdefghij", "Abcdefghijk", "Main Navigation",
     "A heading of more than fifty characters, cut in the message"}

\* len(h2_text)
H2Len(text) ==
    CASE text = "Menu" -> 4
      [] text = "Abcdefghij" -> 10
      [] text = "Abcdefghijk" -> 11
      [] text = "Main Navigation" -> 15
      [] text = "A heading of more than fifty characters, cut in the message"
             -> 59

\* any(nav_word in h2_text.lower()
\*     for nav_word in ['menu', 'navigation', 'skip to'])
HasNavWord(text) == text \in {"Menu", "Main Navigation"}

\* text[:50] on the modelled heading texts
First50(text) ==
    IF text = "A heading of more than fifty characters, cut in the message"
    THEN "A heading of more than fifty characters, cut in th"
    ELSE text

TooManyNever(n) == FALSE

\* if len(h1_tags) > 1:
TooMany(n) == n > 1

\* len(h2_text) > 10 and not any(nav_word in h2_text.lower() ...)
MainHeading(h2) == H2Len(h2) > 10 /\ ~HasNavWord(h2)

MultipleH1Msg == "Multiple H1 tags found ({}), should have exactly one"
EmptyH1Msg == "H1 tag is empty"
FoundH1Msg == "H1 tag found: {}..."
NoH1ButH2Msg ==
    "No H1 found, but H2 could be main heading: {}... - Consider changing to H1 for better SEO"
NoH1Msg ==
    "No H1 tag found - Add a clear main heading for better AI understanding"

\* check_has_h1_tag(page_data)
check_has_h1_tag(page) ==
    LET h1_tags == page.h1
        h2_tags == page.h2
    IN IF h1_tags # <<>>
       THEN IF TooMany(Len(h1_tags))
            THEN CheckResult(FALSE, Msg(MultipleH1Msg, <<Len(h1_tags)>>))
            ELSE IF Strip(h1_tags[1]) = ""
            THEN CheckResult(FALSE, Msg(EmptyH1Msg, <<>>))
            ELSE CheckResult(TRUE,
                     Msg(FoundH1Msg, <<First50(Strip(h1_tags[1]))>>))
       ELSE LET main == SelectSeq(h2_tags, MainHeading)
            IN IF main # <<>>
               THEN CheckResult(FALSE,
                        Msg(NoH1ButH2Msg, <<First50(main[1])>>))
               ELSE CheckResult(FALSE, Msg(NoH1Msg, <<>>))

\* img.get('alt') of an <img> element: None without the attribute
ImageInputs == [alt : {None, Some(""), Some(" "), Some("A photo")}]

NoImagesMsg == "No images found"
AllHaveAltMsg == "All {} images have alt text"
AllMissingAltMsg == "All {} images missing alt text"
SomeMissingAltMsg == "{}/{} images missing/empty alt text"

\* check_images_have_alt_text(page_data)
check_images_have_alt_text(page) ==
    LET images == page.images
        missing_alt == SelectSeq(images, LAMBDA img : img.alt = None)
        empty_alt == SelectSeq(images,
                         LAMBDA img : img.alt # None /\ Strip(img.alt[1]) = "")
        total_issues == Len(missing_alt) + Len(empty_alt)
    IN IF images = <<>>
       THEN CheckResult(TRUE, Msg(NoImagesMsg, <<>>))
       ELSE IF total_issues = 0
       THEN CheckResult(TRUE, Msg(AllHaveAltMsg, <<Len(images)>>))
       ELSE IF total_issues = Len(images)
       THEN CheckResult(FALSE, Msg(AllMissingAltMsg, <<Len(images)>>))
       ELSE CheckResult(FALSE,
                Msg(SomeMissingAltMsg, <<total_issues, Len(images)>>))

\* a check and what it is run on: the robots.txt exchange, or the headings
\* or images of the page body
CheckInputs ==
         [check : {"robots"}, get : RobotsGets]
    \cup [check : {"h1"}, h1 : SeqsUpTo(H1Texts, MaxH1),
          h2 : SeqsUpTo(H2Inputs, MaxH2)]
    \cup [check : {"alt"}, images : SeqsUpTo(ImageInputs, MaxImages)]

CheckRobots ==
    /\ check_out = NoResult
    /\ check_in.check = "robots"
    /\ check_out' = check_robots_txt_allows_crawling(check_in.get)
    /\ UNCHANGED <<check_in, crawl_vars, page_vars, site_vars>>
    /\ UNCHANGED <<audit_vars, legacy_vars>>

CheckH1 ==
    /\ check_out = NoResult
    /\ check_in.check = "h1"
    /\ check_out' = check_has_h1_tag(check_in)
    /\ UNCHANGED <<check_in, crawl_vars, page_vars, site_vars>>
    /\ UNCHANGED <<audit_vars, legacy_vars>>

CheckAlt ==
    /\ check_out = NoResult
    /\ check_in.check = "alt"
    /\ check_out' = check_images_have_alt_text(check_in)
    /\ UNCHANGED <<check_in, crawl_vars, page_vars, site_vars>>
    /\ UNCHANGED <<audit_vars, legacy_vars>>

CheckIdle == check_in = NoPage /\ check_out = NoResult

CheckStart == check_in \in CheckInputs /\ check_out = NoResult

-----------------------------------------------------------------------------
(* The LLM analyses of llm_analysis.py *)

MaxScripts == 3

\* script.string of a JSON-LD <script> element with no body
NoString == "None"

\* the bodies of the JSON-LD scripts of the modelled pages
ScriptStrings ==
    {NoString, "{ invalid json", " ", "null",
     "{\"@type\": \"Article\"}",
     "{\"@type\": \"Article\", \"articleBody\": \"text\"}",
     "{\"@type\": \"WebSite\"}",
     "{\"@type\": \"Organization\", \"name\": \"x\"}",
     "{\"name\": \"x\"}",
     "[{\"@type\": \"FAQPage\", \"mainEntity\": [\"q\"]}, {\"@type\": \"Product\"}]"}

\* a JSON object: its '@type' and the keys that hold a truthy value
JsonObject(type, keys) == [type |-> type, keys |-> keys]

Loaded(shape, items) == [raises |-> None, shape |-> shape, items |-> items]

LoadRaises(exception) ==
    [raises |-> Some(exception), shape |-> "other", items |-> <<>>]

\* json.loads(s) on the modelled bodies
json_loads(s) ==
    CASE s = NoString -> LoadRaises("TypeError")
      [] s = "{ invalid json" -> LoadRaises("JSONDecodeError")
      [] s = " " -> LoadRaises("JSONDecodeError")
      [] s = "null" -> Loaded("other", <<>>)
      [] s = "{\"@type\": \"Article\"}" ->
             Loaded("dict", <<JsonObject(Some("Article"), {"@type"})>>)
      [] s = "{\"@type\": \"Article\", \"articleBody\": \"text\"}" ->
             Loaded("dict",
                 <<JsonObject(Some("Article"), {"@type", "articleBody"})>>)
      [] s = "{\"@type\": \"WebSite\"}" ->
             Loaded("dict", <<JsonObject(Some("WebSite"), {"@type"})>>)
      [] s = "{\"@type\": \"Organization\", \"name\": \"x\"}" ->
             Loaded("dict",
                 <<JsonObject(Some("Organization"), {"@type", "name"})>>)
      [] s = "{\"name\": \"x\"}" ->
             Loaded("dict", <<JsonObject(None, {"name"})>>)
      [] s = "[{\"@type\": \"FAQPage\", \"mainEntity\": [\"q\"]}, {\"@type\": \"Product\"}]" ->
             Loaded("list",
                 <<JsonObject(Some("FAQPage"), {"@type", "mainEntity"}),
                   JsonObject(Some("Product"), {"@type"})>>)

\* llm_priority_types
llm_priority_types ==
    [t \in {"Article", "NewsArticle", "BlogPosting", "FAQPage", "QAPage",
            "HowTo", "Recipe", "Product", "Service", "Organization",
            "Person", "Event", "Place", "Review", "VideoObject",
            "ImageObject", "Dataset", "SoftwareApplication"} |->
        CASE t \in {"Article", "NewsArticle", "FAQPage", "QAPage"} -> 10
          [] t \in {"BlogPosting", "HowTo", "Dataset"} -> 9
          [] t \in {"Recipe", "Product", "Review"} -> 8
          [] t \in {"Service", "Event", "VideoObject",
                    "SoftwareApplication"} -> 7
          [] t \in {"Organization", "Person", "Place", "ImageObject"} -> 6]

\* the bonus for rich content within a schema
RichBonus(item) ==
    LET schema_type == item.type[1]
    IN CASE schema_type = "FAQPage" /\ "mainEntity" \in item.keys -> 5
         [] schema_type = "Article" /\ "articleBody" \in item.keys -> 3
         [] schema_type = "HowTo" /\ "step" \in item.keys -> 4
         [] OTHER -> 0

\* structured_data and total_score before the first script
NoSchemas ==
    [raised |-> None, types_found |-> {}, llm_friendly_types |-> {},
     total_schemas |-> 0, total_score |-> 0]

\* the body of "for item in items" for one item
AddItem(acc, item) ==
    IF item.type = None
    THEN acc
    ELSE LET schema_type == item.type[1]
             found == [acc EXCEPT !.types_found = @ \cup {schema_type},
                                  !.total_schemas = @ + 1]
         IN IF schema_type \in DOMAIN llm_priority_types
            THEN [found EXCEPT
                     !.llm_friendly_types = @ \cup {schema_type},
                     !.total_score =
                         @ + llm_priority_types[schema_type] + RichBonus(item)]
            ELSE found

RECURSIVE AddItems(_, _)
AddItems(acc, items) ==
    IF items = <<>>
    THEN acc
    ELSE AddItems(AddItem(acc, Head(items)), Tail(items))

\* the exceptions of json.loads that "except json.JSONDecodeError" catches
SkippedOnItsOwn(exception) == exception = "JSONDecodeError"

\* "for script in jsonld_scripts": a script whose error is caught is passed
\* over, any other error leaves the loop
RECURSIVE ScanScripts(_, _)
ScanScripts(acc, scripts) ==
    IF scripts = <<>>
    THEN acc
    ELSE LET loaded == json_loads(Head(scripts))
         IN IF loaded.raises = None
            THEN ScanScripts(AddItems(acc, loaded.items), Tail(scripts))
            ELSE IF SkippedOnItsOwn(loaded.raises[1])
            THEN ScanScripts(acc, Tail(scripts))
            ELSE [acc EXCEPT !.raised = loaded.raises]

\* int((total_score / max_possible_score) * 100) in double arithmetic:
\* 29 / 50 * 100 is 57.99999999999999
RichnessPercent(total_score) ==
    IF total_score = 29 THEN 57 ELSE 2 * total_score


\* {'passed': ..., 'message': ..., 'data': ...}
AnalysisResult(passed, message, data) ==
    [status |-> "returned", passed |-> passed, message |-> message,
     data |-> data]

\* check_structured_data_richness(html) on the JSON-LD scripts of the page
check_structured_data_richness(scripts) ==
    LET scanned == ScanScripts(NoSchemas, scripts)
        percent == RichnessPercent(scanned.total_score)
        structured_data ==
            [types_found |-> scanned.types_found,
             llm_friendly_types |-> scanned.llm_friendly_types,
             total_schemas |-> scanned.total_schemas,
             richness_score |-> IF percent > 100 THEN 100 ELSE percent]
    IN IF scanned.raised # None
       THEN AnalysisResult(FALSE,
                Msg("Error analyzing structured data: {}",
                    <<scanned.raised[1]>>),
                None)
       ELSE IF structured_data.llm_friendly_types # {}
       THEN AnalysisResult(TRUE,
                Msg("Found {} LLM-friendly schema types",
                    <<Cardinality(structured_data.llm_friendly_types)>>),
                Some(structured_data))
       ELSE AnalysisResult(FALSE,
                Msg("Found {} schemas but none are LLM-optimized",
                    <<structured_data.total_schemas>>),
                Some(structured_data))

CheckStructuredData ==
    /\ check_out = NoResult
    /\ check_in.check = "jsonld"
    /\ check_out' = check_structured_data_richness(check_in.scripts)
    /\ UNCHANGED <<check_in, crawl_vars, page_vars, site_vars>>
    /\ UNCHANGED <<audit_vars, legacy_vars>>

\* the llm_content_analysis check: element counts of the page body
ManyElements == 9

\* len(soup.find_all(...)) for each kind of element counted by
\* extract_llm_readable_content; text_content_length plays no part in the
\* score and is left out
ContentInputs ==
    [headings : {0, ManyElements},
     paragraphs : {0, ManyElements},
     lists : {0, ManyElements},
     alt_text_images : {0, ManyElements},
     structured_data : {0, ManyElements},
     tables : {0, 1, ManyElements},
     forms : {0, 1},
     iframes : {0, 1},
     images_without_alt : {0, 1, ManyElements},
     canvas_elements : {0, 1, ManyElements},
     svg_elements : {0, 1},
     media_elements : {0, 1},
     javascript_dependent : {0, 1}]

\* min(cap, value)
Capped(cap, value) == IF value < cap THEN value ELSE cap

easily_readable_score(c) ==
    Capped(50, c.headings * 3 + c.paragraphs * 2 + c.lists * 2
               + c.alt_text_images * 2 + c.structured_data * 5)

challenging_penalty(c) ==
    Capped(20, c.tables * 2 + c.forms * 1 + c.images_without_alt * 3)

inaccessible_penalty(c) ==
    Capped(30, c.canvas_elements * 5 + c.media_elements * 3
               + c.javascript_dependent * 2)

\* max(0, easily_readable_score - challenging_penalty - inaccessible_penalty)
llm_readiness_score(c) ==
    LET score == easily_readable_score(c) - challenging_penalty(c)
                     - inaccessible_penalty(c)
    IN IF score > 0 THEN score ELSE 0

\* extract_llm_readable_content(html, url) on the element counts of the body
extract_llm_readable_content(c) ==
    LET score == llm_readiness_score(c)
        content_analysis == [counts |-> c, llm_readiness_score |-> score]
    IN IF score >= 35
       THEN AnalysisResult(TRUE,
                Msg("High LLM content accessibility (score: {})", <<score>>),
                Some(content_analysis))
       ELSE IF score >= 20
       THEN AnalysisResult(TRUE,
                Msg("Moderate LLM content accessibility (score: {})", <<score>>),
                Some(content_analysis))
       ELSE AnalysisResult(FALSE,
                Msg("Low LLM content accessibility (score: {})", <<score>>),
                Some(content_analysis))

ExtractReadableContent ==
    /\ check_out = NoResult
    /\ check_in.check = "content"
    /\ check_out' = extract_llm_readable_content(check_in.counts)
    /\ UNCHANGED <<check_in, crawl_vars, page_vars, site_vars>>
    /\ UNCHANGED <<audit_vars, legacy_vars>>

\* detect_duplicate_content
MaxDupPages == 3

DupUrls ==
    << "https://example.com/page1", "https://example.com/page2",
       "https://example.com/page3", "https://example.com/page4" >>

\* the text left of a page body: over 100 characters or not
DupTexts == {"long", "short"}

\* the pairs of texts whose cosine similarity reaches similarity_threshold
SimilarityInputs(n) ==
    SUBSET {pair \in SUBSET (1 .. n) : Cardinality(pair) = 2}

\* page_urls: the pages with substantial content, in order
RECURSIVE KeptUrls(_, _)
KeptUrls(texts, k) ==
    IF k > Len(texts)
    THEN <<>>
    ELSE IF texts[k] = "long"
    THEN <<DupUrls[k]>> \o KeptUrls(texts, k + 1)
    ELSE KeptUrls(texts, k + 1)

DupPage(page_urls, i) == [url |-> page_urls[i], index |-> i - 1]

\* "for j in range(i + 1, len(similarity_matrix))" of one i: the pages of the
\* group and the indices marked as processed
RECURSIVE SimilarTo(_, _, _, _, _)
SimilarTo(i, j, page_urls, similar, found) ==
    IF j > Len(page_urls)
    THEN found
    ELSE IF {i, j} \in similar
    THEN SimilarTo(i, j + 1, page_urls, similar,
             [similar_pages |->
                  (IF found.similar_pages = <<>>
                   THEN <<DupPage(page_urls, i)>>
                   ELSE found.similar_pages) \o <<DupPage(page_urls, j)>>,
              processed_indices |-> found.processed_indices \cup {j}])
    ELSE SimilarTo(i, j + 1, page_urls, similar, found)

\* "for i in range(len(similarity_matrix))"
RECURSIVE DuplicateGroups(_, _, _, _, _)
DuplicateGroups(i, page_urls, similar, processed_indices, duplicate_groups) ==
    IF i > Len(page_urls)
    THEN duplicate_groups
    ELSE IF i \in processed_indices
    THEN DuplicateGroups(i + 1, page_urls, similar, processed_indices,
             duplicate_groups)
    ELSE LET found == SimilarTo(i, i + 1, page_urls, similar,
                          [similar_pages |-> <<>>,
                           processed_indices |-> processed_indices])
         IN IF found.similar_pages # <<>>
            THEN DuplicateGroups(i + 1, page_urls, similar,
                     found.processed_indices \cup {i},
                     Append(duplicate_groups,
                         [pages |-> found.similar_pages]))
            ELSE DuplicateGroups(i + 1, page_urls, similar,
                     found.processed_indices, duplicate_groups)

\* {"duplicate_groups": [], "similarity_matrix": []}
NoDuplicateData == [duplicate_groups |-> <<>>]

DuplicateData(duplicate_groups, page_urls) ==
    [duplicate_groups |-> duplicate_groups, page_urls |-> page_urls,
     total_duplicates |-> Len(duplicate_groups)]

\* detect_duplicate_content(pages_data) on the texts of the pages and the
\* similar pairs among the texts kept; the similarity values themselves are
\* left out
detect_duplicate_content(texts, similar) ==
    LET page_urls == KeptUrls(texts, 1)
        duplicate_groups == DuplicateGroups(1, page_urls, similar, {}, <<>>)
    IN IF Len(texts) < 2
       THEN AnalysisResult(TRUE,
                Msg("Insufficient pages for duplicate content analysis", <<>>),
                Some(NoDuplicateData))
       ELSE IF Len(page_urls) < 2
       THEN AnalysisResult(TRUE,
                Msg("Insufficient content for duplicate analysis", <<>>),
                Some(NoDuplicateData))
       ELSE IF duplicate_groups # <<>>
       THEN AnalysisResult(FALSE,
                Msg("Found {} groups of duplicate/similar content",
                    <<Len(duplicate_groups)>>),
                Some(DuplicateData(duplicate_groups, page_urls)))
       ELSE AnalysisResult(TRUE, Msg("No duplicate content detected", <<>>),
                Some(DuplicateData(duplicate_groups, page_urls)))

DetectDuplicates ==
    /\ check_out = NoResult
    /\ check_in.check = "dup"
    /\ check_out' = detect_duplicate_content(check_in.texts, check_in.similar)
    /\ UNCHANGED <<check_in, crawl_vars, page_vars, site_vars>>
    /\ UNCHANGED <<audit_vars, legacy_vars>>

\* scrape_as_llm of llm_scraper.py
MaxElements == 3

\* an element of the page body: its tag, its type attribute and its text
\* (for an <img> element, its alt attribute)
Element(tag, type, text) == [tag |-> tag, type |-> type, text |-> text]

JsonLdScript(string) == Element("script", Some("application/ld+json"), string)

ElementInputs ==
    {JsonLdScript("{\"@type\": \"Article\"}"), JsonLdScript("{ invalid json"),
     JsonLdScript(NoString), Element("title", None, "Home"),
     Element("title", None, "A longer title"), Element("h1", None, "Welcome"),
     Element("h2", None, "Details"), Element("img", None, "A photo"),
     Element("iframe", None, "")}

\* "for element in soup([...]): element.decompose()"
Decompose(soup, tags) == SelectSeq(soup, LAMBDA e : e.tag \notin tags)

\* soup.find_all(tags)
FindAll(soup, tags) == SelectSeq(soup, LAMBDA e : e.tag \in tags)

\* the elements that LLMs typically can't access
Inaccessible == {"script", "style", "noscript", "iframe", "canvas", "svg"}

\* int(heading.name[1])
HeadingLevel(tag) ==
    CASE tag = "h1" -> 1 [] tag = "h2" -> 2 [] tag = "h3" -> 3
      [] tag = "h4" -> 4 [] tag = "h5" -> 5 [] tag = "h6" -> 6

\* len(title) of the modelled titles
StrLen(s) ==
    CASE s = "" -> 0 [] s = "Home" -> 4 [] s = "A longer title" -> 14

\* "for script in jsonld_scripts": the data of every script that loads; a
\* JSONDecodeError is passed over, any other error leaves the loop
RECURSIVE LoadScripts(_, _)
LoadScripts(acc, scripts) ==
    IF scripts = <<>>
    THEN acc
    ELSE LET loaded == json_loads(Head(scripts).text)
         IN IF loaded.raises = None
            THEN LoadScripts(
                     [acc EXCEPT !.structured_data =
                         Append(@, [shape |-> loaded.shape,
                                    items |-> loaded.items])],
                     Tail(scripts))
            ELSE IF loaded.raises = Some("JSONDecodeError")
            THEN LoadScripts(acc, Tail(scripts))
            ELSE [acc EXCEPT !.raised = loaded.raises]

\* calculate_llm_content_richness(content); the modelled pages have no
\* paragraph, list or meta description
calculate_llm_content_richness(content) ==
    LET h1_count == Len(SelectSeq(content.headings, LAMBDA h : h.level = 1))
        score ==
              (IF content.title # ""
               THEN 10 + (IF StrLen(content.title) > 10 THEN 5 ELSE 0)
               ELSE 0)
            + (IF content.headings # <<>>
               THEN Len(content.headings) * 3
                    + (IF h1_count = 1 THEN 10 ELSE 0)
               ELSE 0)
            + Len(content.structured_data) * 15
            + Len(content.images_with_context) * 2
    IN IF score < 100 THEN score ELSE 100

\* scrape_as_llm(html, url) on the elements of the page body
scrape_as_llm(elements) ==
    LET soup == Decompose(elements, Inaccessible)
        title_tag == FindAll(soup, {"title"})
        headings ==
            SelectSeq(FindAll(soup, {"h1", "h2", "h3", "h4", "h5", "h6"}),
                LAMBDA e : e.text # "")
        jsonld_scripts ==
            SelectSeq(FindAll(soup, {"script"}),
                LAMBDA e : e.type = Some("application/ld+json"))
        loaded == LoadScripts([raised |-> None, structured_data |-> <<>>],
                      jsonld_scripts)
        images == SelectSeq(FindAll(soup, {"img"}), LAMBDA e : e.text # "")
        llm_content ==
            [title |-> IF title_tag # <<>> THEN title_tag[1].text ELSE "",
             headings |-> [i \in 1 .. Len(headings) |->
                              [level |-> HeadingLevel(headings[i].tag),
                               text |-> headings[i].text]],
             main_content |-> "",
             structured_data |-> loaded.structured_data,
             images_with_context |->
                 [i \in 1 .. Len(images) |-> [alt_text |-> images[i].text]]]
    IN IF loaded.raised # None
       THEN [status |-> "returned", error |-> loaded.raised,
             title |-> "", headings |-> <<>>, main_content |-> "",
             structured_data |-> <<>>, images_with_context |-> <<>>,
             llm_richness_score |-> 0]
       ELSE [status |-> "returned", error |-> None,
             title |-> llm_content.title, headings |-> llm_content.headings,
             main_content |-> llm_content.main_content,
             structured_data |-> llm_content.structured_data,
             images_with_context |-> llm_content.images_with_context,
             llm_richness_score |->
                 calculate_llm_content_richness(llm_content)]

ScrapeAsLlm ==
    /\ check_out = NoResult
    /\ check_in.check = "scrape"
    /\ check_out' = scrape_as_llm(check_in.elements)
    /\ UNCHANGED <<check_in, crawl_vars, page_vars, site_vars>>
    /\ UNCHANGED <<audit_vars, legacy_vars>>

\* an analysis and what it is run on
AnalysisInputs ==
         [check : {"jsonld"}, scripts : SeqsUpTo(ScriptStrings, MaxScripts)]
    \cup [check : {"scrape"}, elements : SeqsUpTo(ElementInputs, MaxElements)]
    \cup [check : {"content"}, counts : ContentInputs]
    \cup UNION {[check : {"dup"}, texts : {texts},
                 similar : SimilarityInputs(Len(KeptUrls(texts, 1)))] :
                    texts \in SeqsUpTo(DupTexts, MaxDupPages)}

AnalysisStart == check_in \in AnalysisInputs /\ check_out = NoResult

-----------------------------------------------------------------------------
(* Specifications *)

Init == CrawlInit /\ PageIdle /\ SiteIdle /\ AuditIdle /\ LegacyIdle /\ CheckIdle

Next == Skip \/ FetchOk \/ FetchFail \/ Return

Spec == Init /\ [][Next]_vars

\* the loop is sequential code: it keeps taking steps until it returns
FairSpec == Init /\ [][Next]_vars /\ WF_vars(Next)

\* score_page applied to every combination of check outcomes
PageInit ==
    CrawlIdle /\ PageStart /\ SiteIdle /\ AuditIdle /\ LegacyIdle /\ CheckIdle

PageNext == ScorePage

PageSpec == PageInit /\ [][PageNext]_vars

\* calculate_scores applied to short lists of pages
SiteInit ==
    CrawlIdle /\ PageIdle /\ SiteStart /\ AuditIdle /\ LegacyIdle /\ CheckIdle

SiteNext == CalculateScores

SiteSpec == SiteInit /\ [][SiteNext]_vars

\* the audit command run under every combination of options
AuditInit ==
    CrawlIdle /\ PageIdle /\ SiteIdle /\ AuditStart /\ LegacyIdle /\ CheckIdle

AuditNext == Audit

AuditSpec == AuditInit /\ [][AuditNext]_vars

\* a rate limiter of the older build, called directly and through
\* fetch_page by threads that share it
LegacyInit ==
    CrawlIdle /\ PageIdle /\ SiteIdle /\ AuditIdle /\ LegacyStart /\ CheckIdle

LegacyNext ==
    \/ Tick \/ Wait \/ FetchPage
    \/ ReadLastRequest \/ ReadTime \/ WriteLastRequest \/ RequestsGet

LegacySpec == LegacyInit /\ [][LegacyNext]_vars

\* one check applied to a robots.txt exchange or to a page body
CheckInit ==
    CrawlIdle /\ PageIdle /\ SiteIdle /\ AuditIdle /\ LegacyIdle /\ CheckStart

CheckNext == CheckRobots \/ CheckH1 \/ CheckAlt

CheckSpec == CheckInit /\ [][CheckNext]_vars

\* one analysis applied to the JSON-LD scripts, the elements, the element
\* counts or the texts of short pages
AnalysisInit ==
    CrawlIdle /\ PageIdle /\ SiteIdle /\ AuditIdle /\ LegacyIdle /\ AnalysisStart

AnalysisNext ==
    CheckStructuredData \/ ScrapeAsLlm \/ ExtractReadableContent
        \/ DetectDuplicates

AnalysisSpec == AnalysisInit /\ [][AnalysisNext]_vars

-----------------------------------------------------------------------------
(* Properties of crawl_site *)

Urls(records) == {records[i].url : i \in 1 .. Len(records)}

\* C1: the crawl never holds more than 50 collected pages, for every link
\* graph and every max_depth.
C1_AtMostFiftyPages == Len(pages_data) <= MaxPages

\* the crawl has returned because of the cap, with work left in the queue
C1_Witness == pc = "done" /\ Len(pages_data) = MaxPages /\ to_visit # <<>>

\* C2: every queued entry and every returned record is on the host of the
\* seed URL; a link to another host is never enqueued.
C2_SameHostOnly ==
    /\ \A i \in 1 .. Len(to_visit) : netloc(to_visit[i][1]) = netloc(start_url)
    /\ \A u \in Urls(pages_data) : netloc(u) = netloc(start_url)

\* a page below the seed that links to another host has been fetched and
\* its internal links have been queued
C2_Witness ==
    /\ last.op = "ok" /\ last.offhost
    /\ Len(pages_data) >= 2
    /\ to_visit # <<>>

\* C3: no returned URL carries a fragment and no two records share a
\* fragment-stripped URL.
C3_FragmentDedup ==
    /\ \A i \in 1 .. Len(pages_data) : pages_data[i].url.frag = NoFrag
    /\ \A i, j \in 1 .. Len(pages_data) :
          [pages_data[i].url EXCEPT !.frag = NoFrag]
            = [pages_data[j].url EXCEPT !.frag = NoFrag] => i = j

\* the seed carries a fragment, and a page linking to one URL under two
\* different fragments has been fetched after it
C3_Witness ==
    /\ start_url.frag # NoFrag
    /\ last.op = "ok" /\ last.dupfrag
    /\ Len(pages_data) >= 2

\* C4: every URL that was dequeued and fetched has exactly one record in
\* pages_data, whether its fetch succeeded or failed.
C4_OneRecordPerFetch ==
    \A u \in visited :
        Cardinality({i \in 1 .. Len(pages_data) : pages_data[i].url = u}) = 1

\* the entries queued at the time of a failed fetch all leave the queue,
\* unless the page cap ends the loop first
C5_Live ==
    [](pending > 0 => <>(pending = 0 \/ Len(pages_data) >= MaxPages))

\* a step taken while such entries wait dequeues the head entry and fetches
\* it unless it is visited or too deep; at the page cap the crawl returns
C5_Step ==
    (pending > 0 /\ pc = "loop") =>
        LET u == [Head(to_visit)[1] EXCEPT !.frag = NoFrag]
            d == Head(to_visit)[2]
        IN IF ~(Len(pages_data) < MaxPages) THEN pc' = "done"
           ELSE /\ to_visit # <<>>
                /\ pc' = "loop"
                /\ IF u \in visited \/ d > max_depth
                   THEN last'.op = "skip" /\ visited' = visited
                   ELSE last'.op \in {"ok", "fail"} /\ u \in visited'

\* C5: a failed fetch does not abort the crawl. The entries that were queued
\* when a fetch failed are all dequeued later, unless the page cap ends the
\* loop first; and each of them, when dequeued, is fetched unless it is
\* already visited or deeper than max_depth.
C5_FailedFetchContinues == C5_Live /\ [][C5_Step]_vars

\* a fetch has just failed while an entry that is neither visited nor too
\* deep was waiting in the queue
C5_Witness ==
    /\ last.op = "fail" /\ pending > 0
    /\ [Head(to_visit)[1] EXCEPT !.frag = NoFrag] \notin visited
    /\ Head(to_visit)[2] <= max_depth

\* depths never decrease along the list and the seed record is first
C6_DepthOrder ==
    /\ \A i, j \in 1 .. Len(pages_data) :
          i < j => pages_data[i].depth <= pages_data[j].depth
    /\ \A i \in 1 .. Len(pages_data) :
          pages_data[i].url = [start_url EXCEPT !.frag = NoFrag] => i = 1

\* a record is appended at the end, for the head entry of the queue
C6_Step ==
    pages_data' # pages_data =>
        /\ to_visit # <<>>
        /\ Len(pages_data') = Len(pages_data) + 1
        /\ SubSeq(pages_data', 1, Len(pages_data)) = pages_data
        /\ pages_data'[Len(pages_data')].url
             = [Head(to_visit)[1] EXCEPT !.frag = NoFrag]
        /\ pages_data'[Len(pages_data')].depth = Head(to_visit)[2]

\* C6: the records are in dequeue (breadth-first) order. A record is only
\* ever appended at the end, for the entry dequeued in that step; depths
\* never decrease along the list; the seed page, when collected, is first.
C6_BfsOrder == []C6_DepthOrder /\ [][C6_Step]_vars

\* two sibling pages of depth 1 and a page of depth 2 have been collected
C6_Witness ==
    /\ pc = "done" /\ Len(pages_data) >= 4
    /\ pages_data[2].depth = 1 /\ pages_data[3].depth = 1
    /\ pages_data[4].depth = 2

\* C7: the crawl terminates, and when it has stopped the queue is empty or
\* 50 pages have been collected.
C7_Terminates ==
    /\ <>(pc = "done")
    /\ [](pc = "done" => (to_visit = <<>> \/ Len(pages_data) >= MaxPages))

\* the crawl has returned with an empty queue after a failed fetch and after
\* a page that linked back to a visited page
C7_Witness ==
    /\ pc = "done" /\ to_visit = <<>>
    /\ last.op = "ok" /\ last.revisit
    /\ Cardinality(visited) > Len(pages_data)
    /\ Len(pages_data) >= 2

-----------------------------------------------------------------------------
(* Properties of score_page and calculate_scores *)

Min(a, b) == IF a < b THEN a ELSE b

Abs(x) == IF x < 0 THEN -x ELSE x

\* the checks of the LLM-specific category
LlmSpecific == {LlmContentAnalysis, LlmAccessibilityAnalysis, LlmContentRichness}

PassedIn(result, names) ==
    Cardinality({k \in 1 .. Len(result.checks) :
        result.checks[k].passed /\ result.checks[k].name \in names})

PassedNotIn(result, names) ==
    Cardinality({k \in 1 .. Len(result.checks) :
        result.checks[k].passed /\ result.checks[k].name \notin names})

\* C8: the score returned by score_page is an integer between 0 and 100,
\* whatever combination of the eight checks passes.
C8_ScoreInRange ==
    page_out.status = "returned" => page_out.score \in 0 .. 100

\* all eight checks passed and the sum of their points was capped
C8_Witness ==
    /\ page_out.status = "returned"
    /\ \A k \in 1 .. Len(page_out.checks) : page_out.checks[k].passed
    /\ Len(page_out.checks) = 8
    /\ page_out.score = 100

\* C9: the score is min(100, 25 * passed LLM-specific checks + 15 * other
\* passed checks); a failed check contributes nothing.
C9_ScoreFormula ==
    page_out.status = "returned" =>
        page_out.score = Min(100, 25 * PassedIn(page_out, LlmSpecific)
                                  + 15 * PassedNotIn(page_out, LlmSpecific))

\* a page with passed and failed checks of both categories has been scored
C9_Witness ==
    /\ page_out.status = "returned"
    /\ PassedIn(page_out, LlmSpecific) = 2
    /\ PassedNotIn(page_out, LlmSpecific) = 3
    /\ page_out.score = 95

\* the scores of the pages calculate_scores was given: the score a page
\* dict carries, or the score computed for a page record
GivenScore(page) ==
    IF "score" \in DOMAIN page THEN page.score ELSE score_page(page).score

RECURSIVE SumGivenScores(_)
SumGivenScores(pages_in) ==
    IF pages_in = <<>> THEN 0
    ELSE GivenScore(Head(pages_in)) + SumGivenScores(Tail(pages_in))

\* C10: calculate_scores returns, with site_score the mean of the scores of
\* the pages it was given rounded to a nearest integer (pages of score 80,
\* 60 and 100 give 80); an empty page list gives site_score 0 and no pages;
\* site_score lies between 0 and 100. Stated for a run without a
\* credential, where the recommendations of the AI analysis are not built.
C10_SiteScoreIsRoundedMean ==
    (site_out # NoResult /\ ~site_in.openai_success) =>
        LET n == Len(site_in.pages)
            total == SumGivenScores(site_in.pages)
        IN /\ site_out.status = "returned"
           /\ Len(site_out.pages) = n
           /\ n = 0 => site_out.site_score = 0 /\ site_out.pages = <<>>
           /\ n > 0 => 2 * Abs(n * site_out.site_score - total) <= n
           /\ site_out.site_score \in 0 .. 100

-----------------------------------------------------------------------------
(* Properties of the audit as a whole *)

\* C11: a page whose fetch failed still has an entry in the pages list of
\* the audit result: when the crawl has returned, every URL that was fetched
\* has an entry in the pages the scorer reports.
C11_FailedPageReported ==
    pc = "done" =>
        \A u \in visited :
            \E i \in 1 .. Len(ReportPages(pages_data)) :
                ReportPages(pages_data)[i].url = u

\* the checks of score_page that parse the body of the page
BodyChecks ==
    {MetaRobotsAllowsIndexing, HasH1Tag, HasMetaDescription, ImagesHaveAltText}

\* C12: a fault raised inside a check never leaves score_page: the call
\* returns, and the checks that met the fault are recorded as failed.
C12_CheckFaultDegrades ==
    page_out # NoResult =>
        /\ page_out.status = "returned"
        /\ SoupRaises(page_in.html) =>
              \A k \in 1 .. Len(page_out.checks) :
                  page_out.checks[k].name \in BodyChecks
                      => ~page_out.checks[k].passed

Printed(out, line) == \E i \in 1 .. Len(out.echo) : out.echo[i] = line

\* C13: when the OpenAI report is requested and no key is configured, the
\* command prints the error, returns normally, and the report or the JSON
\* document has been printed or written.
C13_ReportWithoutCredential ==
    (audit_out # NoResult /\ audit_in.openai_report /\ NoCredential(audit_in)) =>
        /\ audit_out.status = "returned"
        /\ Printed(audit_out, "Error: OpenAI API key required.")
        /\ \/ Printed(audit_out, "unified_report")
           \/ Printed(audit_out, "json")
           \/ audit_out.file # None

-----------------------------------------------------------------------------
(* Properties of the rate limiter and the fetcher *)

\* C14 as stated: every return of wait(), the first one included, comes at
\* least delay after the previous return, or after the construction of the
\* limiter for the first call.
C14_EveryReturnWaits ==
    wait_hist.returns >= 1 => wait_hist.gap >= limiter.delay

\* C14: a wait() call that shares no time inside wait() with another call
\* returns at least delay after the return before it, by the clock the
\* limiter reads; the first call after the construction returns without
\* sleeping.
C14_ConsecutiveReturnsApart ==
    /\ (wait_hist.returns >= 2 /\ ~wait_hist.overlap)
           => wait_hist.gap >= limiter.delay
    /\ wait_hist.returns = 1 => wait_hist.slept = 0

\* a second call of wait() came too early, alone, and has slept
C14_Witness ==
    /\ wait_hist.returns = 2
    /\ ~wait_hist.overlap
    /\ wait_hist.slept > 0
    /\ limiter.delay = MaxDelay

\* C15: a page fetch of the crawl starts only after the sleep has run since
\* the fetch before it, whether that fetch succeeded or failed.
C15_FetchesApart == [][(visited' # visited) => rested]_vars

\* C16: fetch_page returns a record for the requested URL, either with html
\* and status_code set and no error, or with neither set and the failure
\* text as error; it never raises, also when the wait of the limiter fails.
C16_FetchPageNeverRaises ==
    fetch_out # NoResult =>
        /\ fetch_out.status = "returned"
        /\ fetch_out.url = fetch_in.url
        /\ \/ /\ fetch_out.html # None
              /\ fetch_out.status_code # None
              /\ fetch_out.error = None
           \/ /\ fetch_out.html = None
              /\ fetch_out.status_code = None
              /\ fetch_out.error # None

\* the wait of the rate limiter has failed inside fetch_page
C16_Witness ==
    /\ fetch_out # NoResult
    /\ fetch_in.outcome.kind = "wait_raises"
    /\ fetch_out.status = "returned"
    /\ fetch_out.error = Some("wait failed")

-----------------------------------------------------------------------------
(* Properties of the checks *)

\* C17: robots_txt_allows_crawling passes when the robots.txt request gets
\* a 404, any other status than 200, or raises; it fails only after a 200.
C17_RobotsPermissiveByDefault ==
    (check_in.check = "robots" /\ check_out # NoResult) =>
        /\ check_in.get.kind = "raises" => check_out.passed
        /\ (check_in.get.kind = "response" /\ check_in.get.status_code # 200)
              => check_out.passed
        /\ ~check_out.passed =>
              check_in.get.kind = "response" /\ check_in.get.status_code = 200

\* a robots.txt that blocks everything came with status 503
C17_Witness ==
    /\ check_in.check = "robots" /\ check_out # NoResult
    /\ check_in.get.kind = "response"
    /\ check_in.get.status_code = 503
    /\ check_in.get.body
         = <<RobotsLine("User-agent", "*"), RobotsLine("Disallow", "/")>>
    /\ check_out.passed

\* line i of the body is below a "User-agent: *" line with no other
\* user-agent line in between
InWildcardGroup(body, i) ==
    \E j \in 1 .. (i - 1) :
        /\ body[j] = RobotsLine("User-agent", "*")
        /\ \A k \in (j + 1) .. (i - 1) : body[k].field # "User-agent"

\* C18: on a 200 robots.txt the check fails exactly when a "Disallow: /"
\* line stands in a wildcard group and the file has no Allow line at all;
\* a "Disallow: /" that stands only in a bot-specific group never fails it,
\* and the body "User-agent: *", "Disallow: /" fails.
C18_WildcardDisallowAll ==
    (check_in.check = "robots" /\ check_out # NoResult
        /\ check_in.get.kind = "response" /\ check_in.get.status_code = 200) =>
        LET body == check_in.get.body
            blocked == \E i \in 1 .. Len(body) :
                          /\ body[i] = RobotsLine("Disallow", "/")
                          /\ InWildcardGroup(body, i)
            allowed == \E i \in 1 .. Len(body) : body[i].field = "Allow"
        IN /\ ~check_out.passed <=> (blocked /\ ~allowed)
           /\ body = <<RobotsLine("User-agent", "*"), RobotsLine("Disallow", "/")>>
                 => ~check_out.passed

\* a file with a bot-specific group and a wildcard group that disallows
\* everything has failed the check
C18_Witness ==
    /\ check_in.check = "robots" /\ check_out # NoResult
    /\ check_in.get.kind = "response" /\ check_in.get.status_code = 200
    /\ check_in.get.body
         = <<RobotsLine("User-agent", "GPTBot"), RobotsLine("User-agent", "*"),
             RobotsLine("Disallow", "/")>>
    /\ ~check_out.passed

\* C19: has_h1_tag passes exactly when the page has one H1 whose text is not
\* empty; one empty H1 fails with the "empty" message, two or more H1s fail
\* with the "multiple" message that carries their number, whatever their
\* text, and no H1 fails with a "No H1" message.
C19_ExactlyOneH1 ==
    (check_in.check = "h1" /\ check_out # NoResult) =>
        LET n == Len(check_in.h1)
            msg == check_out.message
        IN /\ check_out.passed <=> (n = 1 /\ Strip(check_in.h1[1]) # "")
           /\ (n = 1 /\ Strip(check_in.h1[1]) = "") => msg.template = EmptyH1Msg
           /\ n >= 2 => msg.template = MultipleH1Msg /\ msg.args = <<n>>
           /\ n = 0 => msg.template \in {NoH1Msg, NoH1ButH2Msg}

\* a page with two H1s, the first of them with text, has failed the check
C19_Witness ==
    /\ check_in.check = "h1" /\ check_out # NoResult
    /\ Len(check_in.h1) = 2 /\ check_in.h1[1] = "Title"
    /\ ~check_out.passed
    /\ check_out.message.args = <<2>>

\* C20: images_have_alt_text passes exactly when no image lacks the alt
\* attribute or has a blank one; a page without images passes with the "no
\* images" message; a failure message carries the number of images without
\* alt and the number of images with a blank alt as two separate values.
C20_AltTextSeparateCounts ==
    (check_in.check = "alt" /\ check_out # NoResult) =>
        LET images == check_in.images
            missing == Cardinality({i \in 1 .. Len(images) : images[i].alt = None})
            blank == Cardinality({i \in 1 .. Len(images) :
                         images[i].alt \in {Some(""), Some(" ")}})
            args == check_out.message.args
        IN /\ check_out.passed <=> (missing = 0 /\ blank = 0)
           /\ images = <<>> =>
                 check_out.passed /\ check_out.message.template = NoImagesMsg
           /\ ~check_out.passed =>
                 \E i, j \in 1 .. Len(args) :
                     i # j /\ args[i] = missing /\ args[j] = blank

-----------------------------------------------------------------------------
(* Further properties of crawl_site *)

\* the depths of the records and of the queued entries stay within
\* max_depth, and a crawl of depth 0 visits the seed URL only
C24_Depths ==
    /\ \A i \in 1 .. Len(pages_data) :
          pages_data[i].depth >= 0 /\ pages_data[i].depth <= max_depth
    /\ \A i \in 1 .. Len(to_visit) :
          to_visit[i][2] >= 0 /\ to_visit[i][2] <= max_depth
    /\ max_depth = 0 => visited \subseteq {[start_url EXCEPT !.frag = NoFrag]}

\* entries join the queue only in a step that fetched the head entry
\* successfully at a depth below max_depth, and at that depth plus one
C24_Step ==
    (to_visit' # to_visit /\ Len(to_visit') >= Len(to_visit)) =>
        /\ last'.op = "ok"
        /\ Len(pages_data') = Len(pages_data) + 1
        /\ Head(to_visit)[2] < max_depth
        /\ \A i \in Len(to_visit) .. Len(to_visit') :
              to_visit'[i][2] = Head(to_visit)[2] + 1

\* C24: every returned record has 0 <= depth <= max_depth; links are
\* enqueued, at depth + 1, only from a page fetched successfully at a depth
\* below max_depth; with max_depth = 0 only the seed URL is ever fetched.
C24_DepthBounded == []C24_Depths /\ [][C24_Step]_vars

\* a crawl of depth 1 has returned after fetching a page at depth 1, from
\* which nothing was enqueued
C24_Witness ==
    /\ pc = "done" /\ max_depth = 1
    /\ Len(pages_data) >= 2
    /\ pages_data[Len(pages_data)].depth = 1
    /\ last.op = "ok"

\* a loop iteration fetches the head entry only if its fragment-stripped URL
\* is not visited, and marks it visited; an entry whose URL is visited is
\* skipped without a fetch and without a record
C25_Step ==
    (pc = "loop" /\ to_visit # <<>> /\ Len(pages_data) < MaxPages) =>
        LET u == [Head(to_visit)[1] EXCEPT !.frag = NoFrag]
        IN IF u \in visited
           THEN /\ last'.op = "skip"
                /\ visited' = visited
                /\ pages_data' = pages_data
           ELSE last'.op \in {"ok", "fail"} =>
                    /\ visited' = visited \cup {u}
                    /\ Len(pages_data') <= Len(pages_data) + 1

\* C25: a URL is marked visited when it is fetched and each
\* fragment-stripped URL is fetched at most once in a crawl: an entry whose
\* URL is already visited, after a successful or a failed fetch, is skipped
\* on every later dequeue.
C25_FetchedAtMostOnce == [][C25_Step]_vars

\* the seed page linked twice to one page, its fetch failed, and the second
\* entry for it has been skipped
C25_Witness ==
    /\ last.op = "skip"
    /\ Len(pages_data) = 1
    /\ Cardinality(visited) = 2

-----------------------------------------------------------------------------
(* Further properties of the checks and of the scoring *)

\* C27 as stated: the scan stops at the first user-agent line after the
\* start of a wildcard section, so the check fails only for a "Disallow: /"
\* that stands before that line.
C27_EarlyBreak ==
    (check_in.check = "robots" /\ check_out # NoResult
        /\ check_in.get.kind = "response" /\ check_in.get.status_code = 200) =>
        LET body == check_in.get.body
            stars == {j \in 1 .. Len(body) : body[j] = RobotsLine("User-agent", "*")}
            first == CHOOSE j \in stars : \A k \in stars : j <= k
            scanned(i) ==
                /\ stars # {}
                /\ first < i
                /\ \A k \in (first + 1) .. (i - 1) : body[k].field # "User-agent"
        IN ~check_out.passed =>
              \E i \in 1 .. Len(body) :
                  body[i] = RobotsLine("Disallow", "/") /\ scanned(i)

\* C27: the scan never stops early: the disallow rules of every wildcard
\* section of the file are collected, and a "Disallow: /" in a wildcard
\* section that follows an earlier one fails the check when the file has no
\* Allow line.
C27_LaterSectionsScanned ==
    (check_in.check = "robots" /\ check_out # NoResult
        /\ check_in.get.kind = "response" /\ check_in.get.status_code = 200) =>
        LET body == check_in.get.body
            collected == WildcardDisallows(Directives(body), FALSE, <<>>)
            inGroups == {i \in 1 .. Len(body) :
                            body[i].field = "Disallow" /\ InWildcardGroup(body, i)}
        IN /\ Len(collected) = Cardinality(inGroups)
           /\ \A i \in inGroups :
                 \E k \in 1 .. Len(collected) : collected[k] = body[i].value
           /\ ((\E i \in inGroups : body[i].value = "/")
                 /\ \A i \in 1 .. Len(body) : body[i].field # "Allow")
                => ~check_out.passed

\* a wildcard section is followed by a second one that disallows
\* everything, and the check has failed
C27_Witness ==
    /\ check_in.check = "robots" /\ check_out # NoResult
    /\ check_in.get.kind = "response" /\ check_in.get.status_code = 200
    /\ check_in.get.body
         = <<RobotsLine("User-agent", "*"), RobotsLine("User-agent", "*"),
             RobotsLine("Disallow", "/")>>
    /\ ~check_out.passed

\* C28: every score returned by score_page is at least 25, the points of
\* the llm_accessibility_analysis check, which always passes; no returned
\* score is 0.
C28_ScoreAtLeast25 ==
    page_out.status = "returned" =>
        /\ page_out.score >= 25
        /\ \E k \in 1 .. Len(page_out.checks) :
              /\ page_out.checks[k].name = LlmAccessibilityAnalysis
              /\ page_out.checks[k].passed

\* a page failing every other check has been scored 25
C28_Witness ==
    /\ page_out.status = "returned"
    /\ page_out.score = 25
    /\ PassedIn(page_out, LlmSpecific) = 1
    /\ PassedNotIn(page_out, LlmSpecific) = 0

\* C29: generate_ai_powered_recommendations returns for every combination
\* of page results: calculate_scores returns also after a successful AI
\* analysis.
C29_AiRecommendationsReturn ==
    (site_out # NoResult /\ site_in.openai_success) => site_out.status = "returned"


-----------------------------------------------------------------------------
(* Properties of the LLM analyses *)

\* a script body that json.loads turns into a value
Parseable(s) == json_loads(s).raises = None

\* C21: in structured_data_richness a JSON-LD script that cannot be parsed,
\* malformed or empty, is skipped on its own: the result is the result for
\* the page without its unparseable scripts, so every other script still
\* contributes its types and weights and the check fails only if no
\* LLM-friendly type remains.
C21_UnparseableScriptSkipped ==
    (check_out # NoResult /\ check_in.check = "jsonld") =>
        check_out = check_structured_data_richness(
                        SelectSeq(check_in.scripts, Parseable))

\* a JSON-LD script element whose body can be parsed
ParseableJsonLd(e) ==
    /\ e.tag = "script"
    /\ e.type = Some("application/ld+json")
    /\ Parseable(e.text)

\* C22: scrape_as_llm returns in structured_data one entry for every
\* parseable JSON-LD script of the page, and each entry adds its 15 points
\* to the richness score.
C22_EntryPerParseableScript ==
    (check_out # NoResult /\ check_in.check = "scrape") =>
        LET parseable == SelectSeq(check_in.elements, ParseableJsonLd)
        IN /\ Len(check_out.structured_data) = Len(parseable)
           /\ check_out.llm_richness_score >= Min(100, 15 * Len(parseable))

ChallengingKinds == {"tables", "forms", "iframes", "images_without_alt"}

InaccessibleKinds ==
    {"canvas_elements", "svg_elements", "media_elements",
     "javascript_dependent"}

\* the page has elements of the kind and of no other penalised kind
OnlyPenalised(c, kind) ==
    /\ c[kind] > 0
    /\ \A other \in (ChallengingKinds \cup InaccessibleKinds) \ {kind} :
           c[other] = 0

\* C26: the readiness score of llm_content_analysis lies in 0..50, the check
\* passes iff the score is at least 20, and the elements of every
\* challenging kind (tables, forms, iframes, images without alt) and of
\* every inaccessible kind (canvas, svg, audio/video, inline script-event
\* elements) contribute to their penalty: a page whose readable content
\* scores and that has elements of one such kind scores less than its
\* readable content alone.
C26_EveryKindPenalised ==
    (check_out # NoResult /\ check_in.check = "content") =>
        LET c == check_in.counts
            score == check_out.data[1].llm_readiness_score
        IN /\ score \in 0 .. 50
           /\ check_out.passed <=> score >= 20
           /\ \A kind \in ChallengingKinds \cup InaccessibleKinds :
                  (OnlyPenalised(c, kind) /\ easily_readable_score(c) > 0)
                      => score < easily_readable_score(c)

\* the indices of the pages of a duplicate group
GroupIndices(group) ==
    {group.pages[k].index : k \in 1 .. Len(group.pages)}

\* C30: the duplicate groups of detect_duplicate_content are disjoint:
\* whatever pairs of pages are similar, no page is in two groups.
C30_GroupsDisjoint ==
    (check_out # NoResult /\ check_in.check = "dup") =>
        LET groups == check_out.data[1].duplicate_groups
        IN \A g, h \in 1 .. Len(groups) :
               g # h => GroupIndices(groups[g]) \cap GroupIndices(groups[h]) = {}


\* the entry is in the list
Recommends(list, entry) == \E k \in 1 .. Len(list) : list[k] = entry

\* C23: the recommendations returned by calculate_scores follow the severity
\* rule set with or without a successful AI analysis: critical has the
\* robots entry iff a page fails the robots check, the noindex entry iff a
\* page fails the meta robots check and the H1 entry iff more than half of
\* the pages fail the H1 check; important has the meta description entry iff
\* a page fails that check and the alt text entry iff a page fails that
\* check; suggested has the readability entry iff the average readability
\* is below 70 and the structured data entry iff the site has no schema.
C23_RecommendationsFollowRules ==
    (site_out # NoResult /\ site_out.status = "returned") =>
        LET pages == site_out.pages
            rec == site_out.recommendations
        IN /\ Recommends(rec.critical, "robots.txt blocking")
                  <=> Issues(pages, RobotsTxtAllowsCrawling) > 0
           /\ Recommends(rec.critical, "noindex tags")
                  <=> Issues(pages, MetaRobotsAllowsIndexing) > 0
           /\ Recommends(rec.critical, "missing main headings")
                  <=> 2 * Issues(pages, HasH1Tag) > Len(pages)
           /\ Recommends(rec.important, "missing page descriptions")
                  <=> Issues(pages, HasMetaDescription) > 0
           /\ Recommends(rec.important, "missing image descriptions")
                  <=> Issues(pages, ImagesHaveAltText) > 0
           /\ Recommends(rec.suggested, "simplify your writing")
                  <=> site_out.avg_readability_score < 70
           /\ Recommends(rec.suggested, "add structured data")
                  <=> site_out.total_structured_schemas = 0

====
